---- MODULE Spec2Model ----
(***************************************************************************)
(* Model of the HomeWizard kWh meter to D-Bus bridge:                      *)
(*   src/dbus-homewizard/__main__.py  argument validation and start-up     *)
(*   src/dbus-homewizard/bridge.py    class HwDbusBridge                   *)
(*                                                                         *)
(* Time is counted in ticks of 0.1 s.  Python's None is the empty tuple    *)
(* and any other Python value v is the one-element tuple <<v>>, so that a  *)
(* None can be told from every value without comparing unlike types.      *)
(***************************************************************************)
EXTENDS Integers, Sequences, FiniteSets, TLC

VARIABLES
    args,           \* the parsed command line (__main__.py, args)
    pc,             \* position of the process in __main__ / HwDbusBridge.run
    exit_status,    \* status handed to sys.exit, None while running
    exit_cause,     \* which sys.exit call ended the process
    exc,            \* the uncaught exception that ended the process
    self,           \* the fields of the HwDbusBridge instance
    service,        \* self.service: None or the items of the live Service
    bus_live,       \* Service objects that hold self.dbus_name on the bus
    in_flight,      \* __get_hw jobs running in the executor
    info,           \* run(): info
    data,           \* run(): data
    start,          \* run(): start
    loop_duration,  \* run(): loop_duration
    now,            \* time.time(), counted from the entry of the poll loop
    http,           \* the outcome of the last HTTP request
    sleep_delay,    \* the argument of the last asyncio.sleep call
    hist            \* observation only: counters and the previous cycle

vars == <<args, pc, exit_status, exit_cause, exc, self, service, bus_live,
          in_flight, info, data, start, loop_duration, now, http,
          sleep_delay, hist>>

None == <<>>
Some(v) == <<v>>
Unwrap(o) == o[1]

-----------------------------------------------------------------------------
(* Bounds of the model *)

MaxClock == 130         \* the clock stops the model here
MaxCount == 2           \* the observation counters saturate here

-----------------------------------------------------------------------------
(* Program constants *)

ROLES == {"grid", "pvinverter"}
HttpTimeout == 30               \* requests.get(url, timeout=3)
RetryDelay == 50                \* asyncio.sleep(5)
MinPollInterval == 2            \* args.pollinterval < 0.2
SupportedApiVersion == "v1"
InvalidIpExitStatus == 1
PollIntervalExitStatus == 2
ApiVersionExitStatus == 1
UncaughtExitStatus == 1

-----------------------------------------------------------------------------
(* Inputs: command lines, HTTP outcomes and JSON payloads *)

PollIntervals == {1, 10, 60}            \* 0.1 s (rejected), 1 s, 6 s
Phases == {1, 2, 3}
Positions == {0, 1}
MaxPowers == {None, Some(3000)}
FetchDurations == {0, 4, 12}            \* time an answered request takes

ArgsSet ==
    [ip_ok : BOOLEAN, role : ROLES, instance : {10}, phase : Phases,
     position : Positions, name : {"homewizard"}, maxpower : MaxPowers,
     pollinterval : PollIntervals]

\* GET /api
InfoV1 == [serial |-> "X", firmware_version |-> "1.2", api_version |-> "v1",
           product_type |-> "P1"]
InfoV2 == [serial |-> "X", firmware_version |-> "5.0", api_version |-> "v2",
           product_type |-> "P1"]
InfoNoSerial == [firmware_version |-> "1.2", api_version |-> "v1",
                 product_type |-> "P1"]
InfoPayloads == {InfoV1, InfoV2, InfoNoSerial}

\* GET /api/v1/data
RequiredKeys ==
    << "total_power_export_kwh", "total_power_import_kwh", "active_power_w",
       "active_power_l1_w", "active_voltage_l1_v", "active_current_l1_a",
       "active_power_l2_w", "active_voltage_l2_v", "active_current_l2_a",
       "active_power_l3_w", "active_voltage_l3_v", "active_current_l3_a" >>

ThreePhaseA ==
    [k \in {RequiredKeys[i] : i \in 1..Len(RequiredKeys)} |->
        CASE k = "total_power_export_kwh" -> 7
          [] k = "total_power_import_kwh" -> 5
          [] k = "active_power_w"         -> 100
          [] k = "active_power_l1_w"      -> 40
          [] k = "active_voltage_l1_v"    -> 230
          [] k = "active_current_l1_a"    -> 2
          [] k = "active_power_l2_w"      -> 70
          [] k = "active_voltage_l2_v"    -> 231
          [] k = "active_current_l2_a"    -> 3
          [] k = "active_power_l3_w"      -> -10
          [] k = "active_voltage_l3_v"    -> 229
          [] k = "active_current_l3_a"    -> 1]

ThreePhaseB ==
    [k \in DOMAIN ThreePhaseA |->
        CASE k = "active_power_w"      -> -250
          [] k = "active_power_l1_w"   -> -90
          [] k = "active_power_l2_w"   -> -80
          [] k = "active_power_l3_w"   -> -80
          [] k = "total_power_export_kwh" -> 8
          [] OTHER                     -> ThreePhaseA[k]]

\* a single-phase meter names its voltage, current and power flat
SinglePhaseFlat ==
    [total_power_export_kwh |-> 0, total_power_import_kwh |-> 5,
     active_power_w |-> 100, active_voltage_v |-> 230, active_current_a |-> 4]

\* a body that parses but is no reading
NoReading == [error |-> 1]

ThreePhasePayloads == {ThreePhaseA, ThreePhaseB}
DataPayloads == ThreePhasePayloads \cup {SinglePhaseFlat, NoReading}

FailureKinds == {"timeout", "connection_error", "bad_body"}

Response(kind, body) == [kind |-> kind, body |-> body]

InfoResponses ==
    {Response(k, InfoV1) : k \in FailureKinds}
        \cup {Response("json", b) : b \in InfoPayloads}
DataResponses ==
    {Response(k, NoReading) : k \in FailureKinds}
        \cup {Response("json", b) : b \in DataPayloads}

-----------------------------------------------------------------------------
(* Outcomes of a call: a returned value or a raised exception *)

Return(v) == [raised |-> "", value |-> Some(v)]
Raise(e) == [raised |-> e, value |-> None]
Raised(r) == r.raised # ""
Value(r) == Unwrap(r.value)

Max(a, b) == IF a >= b THEN a ELSE b
Bump(n) == IF n < MaxCount THEN n + 1 ELSE n

-----------------------------------------------------------------------------
(* HwDbusBridge.__init__ *)

Bridge(a) ==
    [role |-> a.role, dev_idx |-> a.instance, position |-> a.position,
     maxpower |-> a.maxpower, pollinterval |-> a.pollinterval,
     dbus_name |-> <<"com.victronenergy", a.role, a.name>>,
     phase |-> a.phase]

-----------------------------------------------------------------------------
(* HwDbusBridge.__get_hw: one HTTP GET; only a timeout and a body that     *)
(* does not parse are caught                                               *)

get_hw(resp) ==
    CASE resp.kind = "timeout"          -> Return(None)
      [] resp.kind = "connection_error" -> Raise("ConnectionError")
      [] resp.kind = "bad_body"         -> Return(None)
      [] OTHER                          -> Return(Some(resp.body))

\* the time the request takes: a timeout takes the whole 3 s
RequestDurations(resp) ==
    IF resp.kind = "timeout" THEN {HttpTimeout} ELSE FetchDurations

-----------------------------------------------------------------------------
(* HwDbusBridge.register_dbus: the items of a fresh Service *)

PhasePaths(i) ==
    CASE i = 1 -> <<"/Ac/L1/Voltage", "/Ac/L1/Current", "/Ac/L1/Power">>
      [] i = 2 -> <<"/Ac/L2/Voltage", "/Ac/L2/Current", "/Ac/L2/Power">>
      [] i = 3 -> <<"/Ac/L3/Voltage", "/Ac/L3/Current", "/Ac/L3/Power">>

PhasePathSet(i) == {PhasePaths(i)[j] : j \in 1..3}
TotalPaths == {"/Ac/Energy/Forward", "/Ac/Energy/Reverse", "/Ac/Power"}
MeasurementPaths == TotalPaths \cup UNION {PhasePathSet(i) : i \in 1..3}

GenericPaths(s) ==
    {"/ProductName", "/Mgmt/ProcessName", "/Mgmt/ProcessVersion",
     "/Mgmt/Connection", "/Connected", "/DeviceInstance", "/ProductId",
     "/DeviceType", "/FirmwareVersion", "/HardwareVersion", "/Role",
     "/Serial", "/ErrorCode", "/StatusCode"}
        \cup (IF s.role = "pvinverter" THEN {"/Position"} ELSE {})
        \cup (IF s.role = "pvinverter" /\ s.maxpower # None
              THEN {"/MaxPower"} ELSE {})

PhaseInitial(s, i) == IF i = s.phase THEN None ELSE Some(0)

register_dbus(s, serial, product, fw_version) ==
    [p \in GenericPaths(s) \cup MeasurementPaths |->
        CASE p = "/ProductName"         -> Some(<<"HomeWizard", product>>)
          [] p = "/Mgmt/ProcessName"    -> Some("dbus-homewizard")
          [] p = "/Mgmt/ProcessVersion" -> Some("Unknown version")
          [] p = "/Mgmt/Connection"     -> Some("Ethernet")
          [] p = "/Connected"           -> Some(0)
          [] p = "/DeviceInstance"      -> Some(s.dev_idx)
          [] p = "/ProductId"           -> Some(45069)
          [] p = "/DeviceType"          -> Some(345)
          [] p = "/FirmwareVersion"     -> Some(fw_version)
          [] p = "/HardwareVersion"     -> None
          [] p = "/Role"                -> Some(s.role)
          [] p = "/Serial"              -> Some(serial)
          [] p = "/ErrorCode"           -> Some(0)
          [] p = "/StatusCode"          -> Some(0)
          [] p = "/Position"            -> Some(s.position)
          [] p = "/MaxPower"            -> s.maxpower
          [] p \in TotalPaths           -> None
          [] p \in PhasePathSet(1)      -> PhaseInitial(s, 1)
          [] p \in PhasePathSet(2)      -> PhaseInitial(s, 2)
          [] p \in PhasePathSet(3)      -> PhaseInitial(s, 3)]

-----------------------------------------------------------------------------
(* HwDbusBridge.update_dbus *)

\* data[k] inside the try block: a KeyError or TypeError is caught there
HasAllKeys(d) ==
    /\ d # None
    /\ \A i \in 1..Len(RequiredKeys) : RequiredKeys[i] \in DOMAIN Unwrap(d)

Field(d, k) == Some(Unwrap(d)[k])

\* the locals after the try / except / else
Extract(d) ==
    IF HasAllKeys(d)
    THEN [energy_exp |-> Field(d, "total_power_export_kwh"),
          energy_imp |-> Field(d, "total_power_import_kwh"),
          power      |-> Field(d, "active_power_w"),
          power_l1   |-> Field(d, "active_power_l1_w"),
          voltage_l1 |-> Field(d, "active_voltage_l1_v"),
          current_l1 |-> Field(d, "active_current_l1_a"),
          power_l2   |-> Field(d, "active_power_l2_w"),
          voltage_l2 |-> Field(d, "active_voltage_l2_v"),
          current_l2 |-> Field(d, "active_current_l2_a"),
          power_l3   |-> Field(d, "active_power_l3_w"),
          voltage_l3 |-> Field(d, "active_voltage_l3_v"),
          current_l3 |-> Field(d, "active_current_l3_a"),
          connected  |-> 1]
    ELSE [energy_exp |-> None, energy_imp |-> None, power |-> None,
          power_l1 |-> None, voltage_l1 |-> None, current_l1 |-> None,
          power_l2 |-> None, voltage_l2 |-> None, current_l2 |-> None,
          power_l3 |-> None, voltage_l3 |-> None, current_l3 |-> None,
          connected |-> 0]

\* slip: the sign is not turned
Negate_Identity(x) == x

\* x * -1
Negate(x) == Some(Unwrap(x) * (-1))

\* slip: the pvinverter branch takes the energies in the grid's order
ApplyRole_NoSwap(s, l) ==
    IF s.role = "pvinverter"
    THEN IF l.power = None \/ l.power_l1 = None \/ l.power_l2 = None
                \/ l.power_l3 = None
         THEN Raise("TypeError")
         ELSE Return([l EXCEPT !.power = Negate(l.power),
                               !.power_l1 = Negate(l.power_l1),
                               !.power_l2 = Negate(l.power_l2),
                               !.power_l3 = Negate(l.power_l3)]
                        @@ [energy_fw |-> l.energy_imp,
                            energy_rv |-> l.energy_exp])
    ELSE Return(l @@ [energy_fw |-> l.energy_imp,
                      energy_rv |-> l.energy_exp])

\* the locals after the role branch; None * -1 raises TypeError
ApplyRole(s, l) ==
    IF s.role = "pvinverter"
    THEN IF l.power = None \/ l.power_l1 = None \/ l.power_l2 = None
                \/ l.power_l3 = None
         THEN Raise("TypeError")
         ELSE Return([l EXCEPT !.power = Negate(l.power),
                               !.power_l1 = Negate(l.power_l1),
                               !.power_l2 = Negate(l.power_l2),
                               !.power_l3 = Negate(l.power_l3)]
                        @@ [energy_fw |-> l.energy_exp,
                            energy_rv |-> l.energy_imp])
    ELSE Return(l @@ [energy_fw |-> l.energy_imp,
                      energy_rv |-> l.energy_exp])

\* slip: the totals are left out of the with block
WriteItems_NoTotals(items, m) ==
    [items EXCEPT !["/Connected"] = Some(m.connected),
                  !["/Ac/L1/Voltage"] = m.voltage_l1,
                  !["/Ac/L1/Current"] = m.current_l1,
                  !["/Ac/L1/Power"] = m.power_l1,
                  !["/Ac/L2/Voltage"] = m.voltage_l2,
                  !["/Ac/L2/Current"] = m.current_l2,
                  !["/Ac/L2/Power"] = m.power_l2,
                  !["/Ac/L3/Voltage"] = m.voltage_l3,
                  !["/Ac/L3/Current"] = m.current_l3,
                  !["/Ac/L3/Power"] = m.power_l3]

\* slip: the flag is also written to /StatusCode
WriteItems_StatusToo(items, m) ==
    [items EXCEPT !["/Connected"] = Some(m.connected),
                  !["/StatusCode"] = Some(m.connected),
                  !["/Ac/L1/Voltage"] = m.voltage_l1,
                  !["/Ac/L1/Current"] = m.current_l1,
                  !["/Ac/L1/Power"] = m.power_l1,
                  !["/Ac/L2/Voltage"] = m.voltage_l2,
                  !["/Ac/L2/Current"] = m.current_l2,
                  !["/Ac/L2/Power"] = m.power_l2,
                  !["/Ac/L3/Voltage"] = m.voltage_l3,
                  !["/Ac/L3/Current"] = m.current_l3,
                  !["/Ac/L3/Power"] = m.power_l3,
                  !["/Ac/Power"] = m.power,
                  !["/Ac/Energy/Forward"] = m.energy_fw,
                  !["/Ac/Energy/Reverse"] = m.energy_rv]

\* the with block: every write sets the local value of the item
WriteItems(items, m) ==
    [items EXCEPT !["/Connected"] = Some(m.connected),
                  !["/Ac/L1/Voltage"] = m.voltage_l1,
                  !["/Ac/L1/Current"] = m.current_l1,
                  !["/Ac/L1/Power"] = m.power_l1,
                  !["/Ac/L2/Voltage"] = m.voltage_l2,
                  !["/Ac/L2/Current"] = m.current_l2,
                  !["/Ac/L2/Power"] = m.power_l2,
                  !["/Ac/L3/Voltage"] = m.voltage_l3,
                  !["/Ac/L3/Current"] = m.current_l3,
                  !["/Ac/L3/Power"] = m.power_l3,
                  !["/Ac/Power"] = m.power,
                  !["/Ac/Energy/Forward"] = m.energy_fw,
                  !["/Ac/Energy/Reverse"] = m.energy_rv]

update_dbus(s, items, d) ==
    LET m == ApplyRole(s, Extract(d))
    IN  IF Raised(m) THEN m ELSE Return(WriteItems(items, Value(m)))

-----------------------------------------------------------------------------
(* HwDbusBridge.run: the two sleeps of the poll loop *)

\* slip: the retry branch is lost, every cycle uses the cadence sleep
CycleSleep_NoRetry(s, d, duration) == s.pollinterval - duration

\* slip: the time the cycle took is not taken off the poll interval
CycleSleep_NoElapsed(s, d, duration) ==
    IF d = None THEN RetryDelay ELSE s.pollinterval

\* the argument of asyncio.sleep at the end of a cycle
CycleSleep(s, d, duration) ==
    IF d = None THEN RetryDelay ELSE s.pollinterval - duration

\* asyncio.sleep(delay) returns at once for delay <= 0
asyncio_sleep(delay) == IF delay <= 0 THEN 0 ELSE delay

-----------------------------------------------------------------------------
(* The process: __main__.py and HwDbusBridge.run *)

Hist0 ==
    [info_fetches |-> 0, data_fetches |-> 0, registrations |-> 0,
     has_prev |-> FALSE, prev_start |-> 0, prev_failed |-> FALSE,
     prev_busy |-> 0, last_call |-> "", unregisters |-> 0]

Init ==
    /\ args \in ArgsSet
    /\ pc = "main"
    /\ exit_status = None
    /\ exit_cause = ""
    /\ exc = ""
    /\ self = None
    /\ service = None
    /\ bus_live = 0
    /\ in_flight = 0
    /\ info = None
    /\ data = None
    /\ start = 0
    /\ loop_duration = 0
    /\ now = 0
    /\ http = ""
    /\ sleep_delay = 0
    /\ hist = Hist0

\* sys.exit(status)
Exit(status, cause) ==
    /\ pc' = "exited"
    /\ exit_status' = Some(status)
    /\ exit_cause' = cause
    /\ exc' = exc

\* an exception nobody catches leaves run() and asyncio.run(); the
\* interpreter prints the traceback and exits with status 1
Crash(e) ==
    /\ pc' = "crashed"
    /\ exit_status' = Some(UncaughtExitStatus)
    /\ exit_cause' = "uncaught_exception"
    /\ exc' = e

Goto(label) ==
    /\ pc' = label
    /\ UNCHANGED <<exit_status, exit_cause, exc>>

InfoKeys == {"serial", "firmware_version", "api_version", "product_type"}

\* slip: the identity loop ends after the first fetch whatever it returned
InfoReceived_Always(i) == TRUE

\* slip: the identity loop is never left
InfoReceived_Never(i) == FALSE

\* run(): if info is not None: break
InfoReceived(i) == i # None

\* slip: the api_version check accepts every version
ApiSupported_Any(i) == TRUE

\* run(): if api_version != "v1": ... sys.exit(1)
ApiSupported(i) == i.api_version = SupportedApiVersion

\* __main__.py: validation of the arguments, construction of the bridge
Main ==
    /\ pc = "main"
    /\ IF ~args.ip_ok
       THEN Exit(InvalidIpExitStatus, "invalid_ip") /\ self' = self
       ELSE IF args.pollinterval < MinPollInterval
       THEN Exit(PollIntervalExitStatus, "pollinterval") /\ self' = self
       ELSE Goto("get_info") /\ self' = Some(Bridge(args))
    /\ UNCHANGED <<args, service, bus_live, in_flight, info, data, start,
                   loop_duration, now, http, sleep_delay, hist>>

\* loop.run_in_executor(None, self.__get_hw, url): one more job runs
run_in_executor(n) == n + 1

\* slip: the caller goes on while the job it started is still running
FetchCompleted_Abandoned(n) == n

\* the await returns when the job has ended
FetchCompleted(n) == n - 1

\* run(): await self.get_hw_info(loop), up to the suspension of run()
StartGetHwInfo ==
    /\ pc = "get_info"
    /\ in_flight' = run_in_executor(in_flight)
    /\ hist' = [hist EXCEPT !.info_fetches = Bump(@)]
    /\ Goto("await_info")
    /\ UNCHANGED <<args, self, service, bus_live, info, data, start,
                   loop_duration, now, http, sleep_delay>>

\* run(): info = await self.get_hw_info(loop); if info is not None: break
GetHwInfo ==
    /\ pc = "await_info"
    /\ in_flight' = FetchCompleted(in_flight)
    /\ \E resp \in InfoResponses :
         LET r == get_hw(resp)
         IN  /\ http' = resp.kind
             /\ IF Raised(r)
                THEN Crash(r.raised) /\ info' = info
                ELSE /\ info' = Value(r)
                     /\ IF InfoReceived(Value(r)) THEN Goto("read_info")
                                                  ELSE Goto("info_sleep")
    /\ UNCHANGED <<args, self, service, bus_live, hist, data, start,
                   loop_duration, now, sleep_delay>>

\* run(): await asyncio.sleep(5) in the identity loop
InfoSleep ==
    /\ pc = "info_sleep"
    /\ sleep_delay' = RetryDelay
    /\ Goto("get_info")
    /\ UNCHANGED <<args, self, service, bus_live, in_flight, info, data,
                   start, loop_duration, now, http, hist>>


\* run(): the four info[...] reads and the api_version check
ReadInfo ==
    /\ pc = "read_info"
    /\ LET i == Unwrap(info)
       IN  IF ~(InfoKeys \subseteq DOMAIN i)
           THEN Crash("KeyError")
           ELSE IF ~ApiSupported(i)
           THEN Exit(ApiVersionExitStatus, "api_version")
           ELSE Goto("register")
    /\ UNCHANGED <<args, self, service, bus_live, in_flight, info, data,
                   start, loop_duration, now, http, sleep_delay, hist>>

\* unregister_dbus(): the Service, if any, is deleted and gives up the name
unregister_dbus(svc, live) ==
    [service |-> None, live |-> IF svc # None THEN live - 1 ELSE live]

\* slip: register_dbus does not call unregister_dbus first
register_call_NoRelease(s, svc, live, i) ==
    [service |-> Some(register_dbus(s, i.serial, i.product_type,
                                    i.firmware_version)),
     live |-> live + 1]

\* a call of register_dbus: unregister_dbus first, then the fresh Service
\* takes the name and becomes self.service
register_call(s, svc, live, i) ==
    LET released == unregister_dbus(svc, live)
    IN  [service |-> Some(register_dbus(s, i.serial, i.product_type,
                                        i.firmware_version)),
         live |-> released.live + 1]

\* run(): await self.register_dbus(serial, product_type, fw_version)
RegisterDbus ==
    /\ pc = "register"
    /\ LET r == register_call(Unwrap(self), service, bus_live, Unwrap(info))
       IN  /\ service' = r.service
           /\ bus_live' = r.live
    /\ hist' = [hist EXCEPT !.registrations = Bump(@)]
    /\ Goto("poll_start")
    /\ UNCHANGED <<in_flight, args, self, info, data, start, loop_duration,
                   now, http, sleep_delay>>

\* run(): start = time.time()
PollStart ==
    /\ pc = "poll_start"
    /\ start' = now
    /\ hist' = [hist EXCEPT !.prev_start = start]
    /\ Goto("get_data")
    /\ UNCHANGED <<args, self, service, bus_live, in_flight, info, data,
                   loop_duration, now, http, sleep_delay>>

\* run(): await self.get_hw_data(loop), up to the suspension of run()
StartGetHwData ==
    /\ pc = "get_data"
    /\ in_flight' = run_in_executor(in_flight)
    /\ hist' = [hist EXCEPT !.data_fetches = Bump(@)]
    /\ Goto("await_data")
    /\ UNCHANGED <<args, self, service, bus_live, info, data, start,
                   loop_duration, now, http, sleep_delay>>

\* run(): data = await self.get_hw_data(loop)
GetHwData ==
    /\ pc = "await_data"
    /\ in_flight' = FetchCompleted(in_flight)
    /\ \E resp \in DataResponses :
       \E d \in RequestDurations(resp) :
         LET r == get_hw(resp)
         IN  /\ now + d <= MaxClock
             /\ now' = now + d
             /\ http' = resp.kind
             /\ IF Raised(r)
                THEN Crash(r.raised) /\ data' = data
                ELSE Goto("update") /\ data' = Value(r)
    /\ UNCHANGED <<args, self, service, bus_live, hist, info, start,
                   loop_duration, sleep_delay>>

\* run(): self.update_dbus(data)
UpdateDbus ==
    /\ pc = "update"
    /\ LET r == update_dbus(Unwrap(self), Unwrap(service), data)
       IN  IF Raised(r)
           THEN Crash(r.raised) /\ service' = service
           ELSE Goto("sleep") /\ service' = Some(Value(r))
    /\ UNCHANGED <<bus_live, in_flight, args, self, info, data, start,
                   loop_duration, now, http, sleep_delay, hist>>

\* slip: the poll loop is entered again before the registration
NextCycleLabel_Register == "register"

\* run(): the second while True: the next cycle starts at start = time.time()
NextCycleLabel == "poll_start"

\* run(): the if / else that ends the cycle with one asyncio.sleep
Sleep ==
    /\ pc = "sleep"
    /\ LET duration == now - start
           delay == CycleSleep(Unwrap(self), data, duration)
       IN  /\ now + asyncio_sleep(delay) <= MaxClock
           /\ loop_duration' = IF data = None THEN loop_duration ELSE duration
           /\ sleep_delay' = delay
           /\ now' = now + asyncio_sleep(delay)
           /\ hist' = [hist EXCEPT !.has_prev = TRUE,
                                   !.prev_failed = (data = None),
                                   !.prev_busy = duration]
    /\ Goto(NextCycleLabel)
    /\ UNCHANGED <<args, self, service, bus_live, in_flight, info, data,
                   start, http>>

Next ==
    \/ Main
    \/ StartGetHwInfo
    \/ GetHwInfo
    \/ InfoSleep
    \/ ReadInfo
    \/ RegisterDbus
    \/ PollStart
    \/ StartGetHwData
    \/ GetHwData
    \/ UpdateDbus
    \/ Sleep

Spec == Init /\ [][Next]_vars

\* run() from the start of the process to the first suspension of the poll
\* loop, where the first reading fetch is in flight
StartupNext ==
    \/ Main
    \/ StartGetHwInfo
    \/ GetHwInfo
    \/ InfoSleep
    \/ ReadInfo
    \/ RegisterDbus
    \/ PollStart
    \/ StartGetHwData

\* the event loop resumes run() whenever it can go on: every request ends
\* (at the latest by its timeout) and every sleep ends
LiveSpec == Init /\ [][StartupNext]_vars /\ WF_vars(StartupNext)

-----------------------------------------------------------------------------
(* The bridge object under a caller that registers and unregisters it in   *)
(* any order                                                               *)

LifecycleInit ==
    /\ args \in {a \in ArgsSet :
                    a.ip_ok /\ a.pollinterval >= MinPollInterval}
    /\ pc = "idle"
    /\ exit_status = None
    /\ exit_cause = ""
    /\ exc = ""
    /\ self = Some(Bridge(args))
    /\ service = None
    /\ bus_live = 0
    /\ in_flight = 0
    /\ info = None
    /\ data = None
    /\ start = 0
    /\ loop_duration = 0
    /\ now = 0
    /\ http = ""
    /\ sleep_delay = 0
    /\ hist = Hist0

\* await bridge.register_dbus(serial, product, fw_version)
CallRegister ==
    /\ pc = "idle"
    /\ \E i \in {InfoV1, InfoV2} :
         LET r == register_call(Unwrap(self), service, bus_live, i)
         IN  /\ service' = r.service
             /\ bus_live' = r.live
    /\ hist' = [hist EXCEPT !.registrations = Bump(@),
                            !.last_call = "register",
                            !.unregisters = 0]
    /\ UNCHANGED <<args, pc, exit_status, exit_cause, exc, self, in_flight,
                   info, data, start, loop_duration, now, http, sleep_delay>>

\* await bridge.unregister_dbus()
CallUnregister ==
    /\ pc = "idle"
    /\ LET u == unregister_dbus(service, bus_live)
       IN  /\ service' = u.service
           /\ bus_live' = u.live
    /\ hist' = [hist EXCEPT !.last_call = "unregister",
                            !.unregisters = Bump(@)]
    /\ UNCHANGED <<args, pc, exit_status, exit_cause, exc, self, in_flight,
                   info, data, start, loop_duration, now, http, sleep_delay>>

LifecycleNext ==
    \/ CallRegister
    \/ CallUnregister

LifecycleSpec == LifecycleInit /\ [][LifecycleNext]_vars

-----------------------------------------------------------------------------
(* Vocabulary of the properties *)

Items == Unwrap(service)
Config == Unwrap(self)
PollingLabels == {"poll_start", "get_data", "await_data", "update", "sleep"}
StartupLabels == {"main", "get_info", "await_info", "info_sleep"}

\* the reading of the cycle is Unavailable: no data, or a required field
\* is missing
Unavailable(d) == ~HasAllKeys(d)

\* update_dbus has been left, by its end or by an exception
CycleEnded == pc = "sleep" \/ (pc = "crashed" /\ exc = "TypeError")

\* the raw field a measurement path is fed from, and the sign it is given
PowerPaths == {"/Ac/Power", "/Ac/L1/Power", "/Ac/L2/Power", "/Ac/L3/Power"}
EnergyPaths == {"/Ac/Energy/Forward", "/Ac/Energy/Reverse"}
OtherRole(r) == IF r = "grid" THEN "pvinverter" ELSE "grid"
RoleSign(r) == IF r = "pvinverter" THEN -1 ELSE 1

RawKey(r, p) ==
    CASE p = "/Ac/Power"          -> "active_power_w"
      [] p = "/Ac/L1/Voltage"     -> "active_voltage_l1_v"
      [] p = "/Ac/L1/Current"     -> "active_current_l1_a"
      [] p = "/Ac/L1/Power"       -> "active_power_l1_w"
      [] p = "/Ac/L2/Voltage"     -> "active_voltage_l2_v"
      [] p = "/Ac/L2/Current"     -> "active_current_l2_a"
      [] p = "/Ac/L2/Power"       -> "active_power_l2_w"
      [] p = "/Ac/L3/Voltage"     -> "active_voltage_l3_v"
      [] p = "/Ac/L3/Current"     -> "active_current_l3_a"
      [] p = "/Ac/L3/Power"       -> "active_power_l3_w"
      [] p = "/Ac/Energy/Forward" ->
            IF r = "pvinverter" THEN "total_power_export_kwh"
                                ELSE "total_power_import_kwh"
      [] p = "/Ac/Energy/Reverse" ->
            IF r = "pvinverter" THEN "total_power_import_kwh"
                                ELSE "total_power_export_kwh"

Raw(d, k) == Unwrap(d)[k]

\* what a cycle with reading d is to leave in measurement path p
Expected(r, d, p) ==
    IF Unavailable(d) THEN None
    ELSE Some((IF p \in PowerPaths THEN RoleSign(r) ELSE 1)
                 * Raw(d, RawKey(r, p)))

\* the cycle has published a valid reading
PublishedValid == pc = "sleep" /\ HasAllKeys(data)

\* the poll attempt that has just started follows one whose fetch returned
\* no data / returned data
AfterFailedFetch == pc = "get_data" /\ hist.has_prev /\ hist.prev_failed
AfterAnsweredFetch == pc = "get_data" /\ hist.has_prev /\ ~hist.prev_failed

-----------------------------------------------------------------------------
(* Properties *)

\* C1: a poll cycle whose reading is Unavailable ends with /Connected = 0
\* and every measurement field null, under either role.
C1_UnavailablePublishesNull ==
    (CycleEnded /\ Unavailable(data)) =>
        /\ Items["/Connected"] = Some(0)
        /\ \A p \in MeasurementPaths : Items[p] = None

\* C2: once polling, no fetch outcome ends the process: the controller is
\* always at one of the steps of the poll loop.
C2_PollingNeverEnds ==
    (service # None) => pc \in PollingLabels

\* C3: get_hw_info and get_hw_data never raise: after a request that timed
\* out, met a transport failure or got a body that does not parse, the
\* caller holds None and no exception has left the fetch.
C3_FetchNeverRaises ==
    (http \in FailureKinds) =>
        /\ exc # "ConnectionError"
        /\ (pc = "info_sleep" => info = None)
        /\ (pc = "update" => data = None)

\* C4: the slots of the two phases other than the configured one are zero
\* after every poll cycle whose reading is not a three-phase reading.
C4_OtherPhasesStayZero ==
    (pc \in {"sleep", "poll_start"} /\ service # None
        /\ \A b \in ThreePhasePayloads : data # Some(b)) =>
        \A i \in Phases \ {Config.phase} :
            \A p \in PhasePathSet(i) : Items[p] = Some(0)

\* C5 (as claimed): a poll attempt that follows a fetch without data starts
\* exactly 5 s after the start of that attempt.
C5_GapExactlyRetryDelay ==
    AfterFailedFetch => start - hist.prev_start = RetryDelay

\* C5 (amended): a poll attempt that follows a fetch without data was
\* preceded by a sleep of exactly 5 s, whatever the poll interval, and so
\* starts 5 s plus the time the failed cycle took after that cycle's start.
C5_RetrySleepIsFixed ==
    AfterFailedFetch =>
        /\ sleep_delay = RetryDelay
        /\ start - hist.prev_start = hist.prev_busy + RetryDelay

C5_Witness ==
    /\ AfterFailedFetch
    /\ hist.prev_busy > 0
    /\ Config.pollinterval > RetryDelay

\* C6: after a fetch that returned data the sleep is
\* max(0, pollinterval - elapsed): the next cycle starts pollinterval after
\* this one when the cycle took less, and at once when it took longer; the
\* step that ends such a cycle can always be taken (short of the end of the
\* modelled time).
C6_CadenceSleep ==
    /\ AfterAnsweredFetch =>
          /\ start - hist.prev_start
                = Max(Config.pollinterval, loop_duration)
          /\ start - (hist.prev_start + loop_duration)
                = Max(0, Config.pollinterval - loop_duration)
          /\ sleep_delay = Config.pollinterval - loop_duration
    /\ (pc = "sleep" /\ data # None
          /\ now + Max(0, Config.pollinterval - (now - start)) <= MaxClock)
          => ENABLED Sleep

C6_Witness ==
    /\ AfterAnsweredFetch
    /\ loop_duration > Config.pollinterval
    /\ start = hist.prev_start + loop_duration

\* C7: an exit caused by an invalid configuration never uses the status of
\* the exit caused by an unsupported API version.
C7_ExitStatusTellsCause ==
    (pc = "exited" /\ exit_cause \in {"invalid_ip", "pollinterval"}) =>
        exit_status # Some(ApiVersionExitStatus)

\* C8: an identity payload whose api_version is not "v1" ends the process
\* at once with a failure status: nothing was registered, no reading was
\* fetched, and nothing happens afterwards.
C8_UnsupportedApiIsFatal ==
    (/\ info # None
     /\ InfoKeys \subseteq DOMAIN Unwrap(info)
     /\ Unwrap(info).api_version # "v1"
     /\ pc # "read_info") =>
        /\ pc = "exited"
        /\ exit_status # None
        /\ exit_status # Some(0)
        /\ service = None
        /\ bus_live = 0
        /\ hist.registrations = 0
        /\ hist.data_fetches = 0
        /\ ~ENABLED Next

C8_Witness ==
    /\ pc = "exited"
    /\ exit_cause = "api_version"
    /\ Unwrap(info) = InfoV2

\* C9: while no identity has been fetched the controller is in the identity
\* loop (or the process has ended): nothing is registered and no reading is
\* fetched; every new attempt after a failed one follows a 5 s sleep.
C9_IdentityLoop ==
    /\ (info = None) =>
          /\ pc \in StartupLabels \cup {"exited", "crashed"}
          /\ service = None
          /\ hist.registrations = 0
          /\ hist.data_fetches = 0
    /\ (pc = "info_sleep") => info = None
    /\ (pc = "get_info" /\ hist.info_fetches > 0) =>
          (info = None /\ sleep_delay = RetryDelay)

C9_Witness ==
    /\ pc = "get_info"
    /\ hist.info_fetches = MaxCount
    /\ info = None

\* C10: a single-phase reading with flat field names ends the cycle with
\* /Connected = 1 and the configured phase's slots holding its voltage,
\* current and power (power negated for a pvinverter).
C10_SinglePhaseReadingPublished ==
    (CycleEnded /\ data = Some(SinglePhaseFlat)) =>
        /\ pc = "sleep"
        /\ Items["/Connected"] = Some(1)
        /\ Items[PhasePaths(Config.phase)[1]]
              = Some(SinglePhaseFlat.active_voltage_v)
        /\ Items[PhasePaths(Config.phase)[2]]
              = Some(SinglePhaseFlat.active_current_a)
        /\ Items[PhasePaths(Config.phase)[3]]
              = Some(IF Config.role = "pvinverter"
                     THEN -SinglePhaseFlat.active_power_w
                     ELSE SinglePhaseFlat.active_power_w)

\* C11: a poll cycle with a valid reading ends, under either role, with
\* /Connected = 1 and every measurement field non-null.
C11_ValidPublishesAll ==
    (CycleEnded /\ HasAllKeys(data)) =>
        /\ pc = "sleep"
        /\ Items["/Connected"] = Some(1)
        /\ \A p \in MeasurementPaths : Items[p] # None

C11_Witness ==
    /\ PublishedValid
    /\ Config.role = "pvinverter"
    /\ Items["/Connected"] = Some(1)
    /\ Items["/Ac/L3/Power"] # None

\* C12: for a valid reading the published powers (total and per phase) are
\* the raw powers under role grid and their negations under role
\* pvinverter, so that the other role would publish the negation of each;
\* voltages and currents are the raw values under both roles.
C12_RoleSign ==
    PublishedValid =>
        LET other == Value(update_dbus(
                        [Config EXCEPT !.role = OtherRole(Config.role)],
                        Items, data))
        IN  /\ \A p \in PowerPaths :
                  /\ Items[p] = Some(RoleSign(Config.role)
                                        * Raw(data, RawKey(Config.role, p)))
                  /\ Unwrap(other[p]) = -Unwrap(Items[p])
            /\ \A p \in MeasurementPaths \ (PowerPaths \cup EnergyPaths) :
                  /\ Items[p] = Some(Raw(data, RawKey(Config.role, p)))
                  /\ other[p] = Items[p]

C12_Witness ==
    /\ PublishedValid
    /\ Config.role = "pvinverter"
    /\ data = Some(ThreePhaseA)
    /\ Items["/Ac/Power"] = Some(-100)
    /\ Items["/Ac/L3/Power"] = Some(10)

\* C13: for a valid reading, role grid publishes import as
\* /Ac/Energy/Forward and export as /Ac/Energy/Reverse, role pvinverter
\* publishes export as Forward and import as Reverse; neither is negated.
C13_EnergyDirection ==
    PublishedValid =>
        LET imp == Raw(data, "total_power_import_kwh")
            exp == Raw(data, "total_power_export_kwh")
        IN  IF Config.role = "grid"
            THEN /\ Items["/Ac/Energy/Forward"] = Some(imp)
                 /\ Items["/Ac/Energy/Reverse"] = Some(exp)
            ELSE /\ Items["/Ac/Energy/Forward"] = Some(exp)
                 /\ Items["/Ac/Energy/Reverse"] = Some(imp)

C13_Witness ==
    /\ PublishedValid
    /\ Config.role = "pvinverter"
    /\ data = Some(ThreePhaseA)
    /\ Items["/Ac/Energy/Forward"] = Some(7)
    /\ Items["/Ac/Energy/Reverse"] = Some(5)

\* C14: under any sequence of register_dbus and unregister_dbus calls at
\* most one registration is live, and it is the one self.service holds;
\* after unregister_dbus none is live, also when nothing was registered or
\* when it is called twice in a row, and unregistering again changes
\* nothing.
C14_SingleRegistration ==
    /\ bus_live \in {0, 1}
    /\ (service # None) <=> (bus_live = 1)
    /\ (hist.last_call = "unregister") => (service = None /\ bus_live = 0)
    /\ LET once == unregister_dbus(service, bus_live)
       IN  unregister_dbus(once.service, once.live) = once

C14_Witness ==
    /\ hist.last_call = "register"
    /\ hist.registrations >= 2
    /\ bus_live = 1

\* the controller's state a label belongs to: 0 before run(),
\* 1 AwaitingIdentity, 2 Registering, 3 Polling, 4 the process has ended
Stage(label) ==
    CASE label = "main"                                     -> 0
      [] label \in {"get_info", "await_info", "info_sleep"} -> 1
      [] label \in {"read_info", "register"}                -> 2
      [] label \in PollingLabels                            -> 3
      [] OTHER                                              -> 4

\* C15: the controller goes through AwaitingIdentity, Registering and
\* Polling in this order and never back; the schema is registered at most
\* once, exactly once before anything of a poll cycle happens, and in
\* Polling no identity is fetched and nothing is registered.
C15_StateOrder ==
    /\ [](/\ hist.registrations <= 1
          /\ (pc \in PollingLabels) =>
                (hist.registrations = 1 /\ service # None /\ bus_live = 1)
          /\ (hist.data_fetches > 0) => hist.registrations = 1)
    /\ [][/\ Stage(pc') >= Stage(pc)
          /\ (pc \in PollingLabels) =>
                /\ info' = info
                /\ hist'.info_fetches = hist.info_fetches
                /\ hist'.registrations = hist.registrations
                /\ DOMAIN Unwrap(service') = DOMAIN Unwrap(service)]_vars

C15_Witness ==
    /\ pc = "sleep"
    /\ hist.has_prev
    /\ hist.registrations = 1
    /\ hist.data_fetches >= 2

\* C16: at most one fetch is in flight, and only while run() is suspended
\* in the await of that fetch: no publish step and no further fetch starts
\* before it has returned, and every publish step is over before the next
\* fetch starts.
C16_OneFetchInFlight ==
    /\ in_flight \in {0, 1}
    /\ (in_flight = 1) <=> (pc \in {"await_info", "await_data"})
    /\ (pc = "update") => in_flight = 0

C16_Witness ==
    /\ pc = "await_data"
    /\ in_flight = 1
    /\ hist.has_prev
    /\ Items["/Connected"] = Some(1)

\* the flag and every measurement field are the ones of reading d
ReflectsReading(items, d) ==
    /\ items["/Connected"] = Some(IF Unavailable(d) THEN 0 ELSE 1)
    /\ \A p \in MeasurementPaths : items[p] = Expected(Config.role, d, p)

\* C17: the publish step is one step: every step that changes an item of
\* the registered service is the publish step of a cycle and leaves the
\* flag and all measurement fields reflecting that cycle's reading, and
\* between two publish steps all of them reflect the same reading.
C17_PublishIsAtomic ==
    /\ [][(service # None /\ service' # service) =>
            /\ pc = "update"
            /\ pc' = "sleep"
            /\ ReflectsReading(Unwrap(service'), data)]_vars
    /\ []((pc = "sleep"
            \/ (hist.has_prev
                  /\ pc \in {"poll_start", "get_data", "await_data"}))
            => ReflectsReading(Items, data))

C17_Witness ==
    /\ pc = "sleep"
    /\ hist.has_prev
    /\ ~hist.prev_failed
    /\ data = None
    /\ \A p \in MeasurementPaths : Items[p] = None

\* C18: once an identity fetch has returned a "v1" identity, however many
\* fetches failed before, the schema gets registered and the first poll
\* cycle is started with its reading fetch; after a failed identity fetch
\* another one is always made.
C18_StartupLiveness ==
    /\ (info = Some(InfoV1)) ~> (service # None /\ bus_live = 1)
    /\ (info = Some(InfoV1)) ~> (hist.data_fetches > 0)
    /\ (pc = "info_sleep") ~> (pc = "await_info")

C18_Witness ==
    /\ hist.info_fetches >= 2
    /\ info = Some(InfoV1)
    /\ service # None
    /\ pc = "await_data"

\* the poll attempt that is about to start follows a completed cycle, whose
\* publish the items still show
AfterCycle == pc = "poll_start" /\ hist.has_prev

\* C19: the sleep that ends a cycle agrees with the flag the cycle
\* published: after /Connected = 0 the 5 s retry sleep, after
\* /Connected = 1 the cadence sleep pollinterval - elapsed.
C19_DelayAgreesWithFlag ==
    AfterCycle =>
        /\ (Items["/Connected"] = Some(0)) => sleep_delay = RetryDelay
        /\ (Items["/Connected"] = Some(1)) =>
              sleep_delay = Config.pollinterval - loop_duration

\* the paths the registration sets and a poll cycle is not to touch
StaticPaths == GenericPaths(Config) \ {"/Connected"}

\* C20: whatever the poll cycles publish, the service has the paths it was
\* registered with, every path but /Connected and the measurement paths
\* holds its registration value, and the controller's configuration is the
\* one it was constructed with.
C20_PollingKeepsStatics ==
    (service # None) =>
        LET registered == register_dbus(Bridge(args), Unwrap(info).serial,
                                        Unwrap(info).product_type,
                                        Unwrap(info).firmware_version)
        IN  /\ DOMAIN Items = DOMAIN registered
            /\ MeasurementPaths \cup {"/Connected"} \cup StaticPaths
                  = DOMAIN Items
            /\ \A p \in StaticPaths : Items[p] = registered[p]
            /\ self = Some(Bridge(args))
            /\ info = Some(InfoV1)

C20_Witness ==
    /\ pc = "sleep"
    /\ hist.has_prev
    /\ ~hist.prev_failed
    /\ data = Some(ThreePhaseB)
    /\ Config.role = "pvinverter"
    /\ Items["/Connected"] = Some(1)
    /\ "/MaxPower" \in DOMAIN Items
    /\ Items["/MaxPower"] = Some(3000)
    /\ Items["/StatusCode"] = Some(0)

====
